---- MODULE Spec2Model ----
(***************************************************************************)
(* The manufacturing simulation of ManufacturingSystem.py as a state       *)
(* machine.  One step of the model is one step of the simulation           *)
(* environment: the earliest pending event is popped, the clock is set to  *)
(* its time, and the process waiting on it runs up to its next yield.      *)
(*                                                                         *)
(* Time is counted in whole simulated hours.  The sampled durations        *)
(* (random.uniform) are drawn from the whole-hour values of their ranges.  *)
(***************************************************************************)
EXTENDS Integers, Sequences, FiniteSets, TLC

\* ------------------------------------------------------------------ bounds

\* env.run(until=...): run_scenario runs until 200; the model explores two
\* shorter horizons.  The long one covers a day and the start of the next;
\* the short one is used for the scenarios with several competing lines.
LongHorizon == 27
ShortHorizon == 11

\* Largest number of production lines (entries of product_types).
MaxLines == 3

\* Largest machine_count.
MaxMachines == 2

\* Hours simulated of the runs checked for progress.
LiveHorizon == 8

\* --------------------------------------------------------------- constants

\* Shift.run works modulo a day of 24 hours.
Day == 24

\* Event priorities of the environment's queue.
URGENT == 0
NORMAL == 1

\* run_production's timeout(1) after Packaging, and its timeout(1) when the
\* shift is not active.
GapDelay == 1
\* Variant: the idle line polls every two hours.
IdleDelayTwoHours == 1 + 1
IdleDelay == 1

AssemblyCapacity == 2
QualityControlCapacity == 1
PackagingCapacity == 1

\* machine_setup starts as None for every machine.
None == 0

Stages == <<"machining", "assembly", "quality_control", "packaging">>
StageSet == {Stages[i] : i \in 1..Len(Stages)}

\* Whole-hour values of the sampled durations: the ends of each range that
\* are whole hours (uniform(0.5, 1.5) has one, 1).
SetupDraws == {1}
MachiningDraws == {4, 6}
AssemblyDraws == {2, 4}
QualityControlDraws == {1, 2}
PackagingDraws == {1}
RepairDraws == {1, 3}
\* random.random() < 0.1
FailureDraws == BOOLEAN

\* Shift windows (shift_start, shift_end) given to the constructor: the
\* all-day window, windows touching either end of the day, a one-hour
\* window, a degenerate window and an overnight window.
Windows == { <<0, Day>>, <<0, 3>>, <<1, 2>>, <<21, Day>>, <<2, 2>>, <<3, 1>> }

\* The windows of the scenarios with several lines.
ShortWindows == { <<0, Day>>, <<1, 2>> }

\* The scenarios: (machine_count, shift_start, shift_end, product_types).
\* product_types is a list of distinct product types, here 1..n.
ProductLists == { [i \in 1..n |-> i] : n \in 1..MaxLines }

Scenario(m, w, p, h) ==
    [machine_count |-> m, shift_start |-> w[1], shift_end |-> w[2],
     product_types |-> p, horizon |-> h]

\* One line over the long horizon, under every window.
LongRuns == { Scenario(m, w, [i \in 1..1 |-> i], LongHorizon) :
              m \in 1..MaxMachines, w \in Windows }

\* Up to MaxLines lines over the short horizon.
ShortRuns == { Scenario(m, w, p, ShortHorizon) :
               m \in 1..MaxMachines, w \in ShortWindows, p \in ProductLists }

Scenarios == LongRuns \cup ShortRuns

VARIABLES
    machine_count, shift_start, shift_end, product_types, horizon,
    now, queue, stopped,
    is_active, shift_pc, shift_now,
    pc, stage, users, put_queue,
    machine_id, setup_sample, start_time,
    machine_setup, setup_time, raw_materials,
    total_products_produced, total_waiting_times, processed_parts,
    req_seq, ticket, req_time, grant_time, last_added, last_blocked, act_at, latency

config == <<machine_count, shift_start, shift_end, product_types, horizon>>
envv == <<now, queue, stopped>>
shiftv == <<is_active, shift_pc, shift_now>>
linev == <<pc, stage, machine_id, setup_sample, start_time>>
poolv == <<users, put_queue>>
setupv == <<machine_setup, setup_time>>
metricv == <<total_products_produced, total_waiting_times, processed_parts>>
obsv == <<req_seq, ticket, req_time, grant_time, last_added, last_blocked, act_at,
         latency>>
vars == <<config, envv, shiftv, linev, poolv, setupv, raw_materials, metricv, obsv>>

\* The variables of obsv record what the program does not keep: the order and
\* time of each line's last request (req_seq, ticket, req_time), the time of
\* its grant (grant_time), the amount its last stage added to the wait total
\* and the time it had been blocked (last_added, last_blocked), the instant the
\* shift went up while the line was idle (act_at, -1 when none is pending) and
\* the delay after which the line then began a unit (latency).

Lines == 1..Len(product_types)
ShiftProc == 0

\* ----------------------------------------------------- the event queue

\* An event of the environment's queue.  The queue is kept in the order the
\* environment pops it: by time, then priority, then order of scheduling.
Event(t, prio, kind, who, res) ==
    [time |-> t, prio |-> prio, kind |-> kind, who |-> who, res |-> res]

NotAfter(e, ev) ==
    \/ e.time < ev.time
    \/ e.time = ev.time /\ e.prio <= ev.prio

\* Environment.schedule: the event goes behind every event already queued
\* for the same time and priority.
Schedule(q, ev) ==
    LET k == Cardinality({i \in 1..Len(q) : NotAfter(q[i], ev)})
    IN  SubSeq(q, 1, k) \o <<ev>> \o SubSeq(q, k + 1, Len(q))

\* env.timeout(delay), yielded by process who.
Timeout(q, t, delay, who) == Schedule(q, Event(t + delay, NORMAL, "timeout", who, ""))

\* env.process(generator): the Initialize event of the new process.
Initialize(q, t, who) == Schedule(q, Event(t, URGENT, "init", who, ""))

\* The event of a process whose generator has ended; its parent waits on it.
ProcessEnd(q, t, who) == Schedule(q, Event(t, NORMAL, "process", who, ""))

\* ------------------------------------------------------ the resources

Capacity(s) ==
    CASE s = "machining" -> machine_count
      [] s = "assembly" -> AssemblyCapacity
      [] s = "quality_control" -> QualityControlCapacity
      [] s = "packaging" -> PackagingCapacity

Remove(seq, x) == SelectSeq(seq, LAMBDA y : y # x)

\* The requester a trigger of the put queue looks at.
\* Variant: the newest requester of the put queue is served.
NextRequesterNewest(q) == q[Len(q)]
NextRequester(q) == Head(q)

\* Variant: a trigger that grants without looking at the capacity.
TriggerPutUnbounded(us, pq, q, t, s) ==
    IF pq # <<>>
    THEN LET h == NextRequester(pq)
         IN  [users |-> Append(us, h), put_queue |-> Remove(pq, h),
              queue |-> Schedule(q, Event(t, NORMAL, "request", h, s)),
              granted |-> h]
    ELSE [users |-> us, put_queue |-> pq, queue |-> q, granted |-> 0]

\* Resource._trigger_put: the requester at the head of the put queue becomes
\* a user when a slot is free, and its request event is scheduled.  us and pq
\* are the users and the put queue of stage s; the result is the new users,
\* put queue, event queue and the line granted (0 when none).
TriggerPut(us, pq, q, t, s) ==
    IF pq # <<>> /\ Len(us) < Capacity(s)
    THEN LET h == NextRequester(pq)
         IN  [users |-> Append(us, h), put_queue |-> Remove(pq, h),
              queue |-> Schedule(q, Event(t, NORMAL, "request", h, s)),
              granted |-> h]
    ELSE [users |-> us, put_queue |-> pq, queue |-> q, granted |-> 0]

\* get_available_machine: the first index i for which the pool's count is
\* below its capacity, else 0.
GetAvailableMachine(count) ==
    LET hits == {i \in 0..(machine_count - 1) : count < machine_count}
    IN  IF hits # {} THEN CHOOSE i \in hits : \A j \in hits : i <= j ELSE 0

ProcessingDraws(s) ==
    CASE s = "machining" -> MachiningDraws
      [] s = "assembly" -> AssemblyDraws
      [] s = "quality_control" -> QualityControlDraws
      [] s = "packaging" -> PackagingDraws

StageIndex(s) == CHOOSE i \in 1..Len(Stages) : Stages[i] = s

\* ---------------------------------------------------------------- Init

\* run_scenario up to env.run: the Shift process, one run_production process
\* per product type, then the event that ends the run at the horizon.
\* Variant: the run ends one hour after the horizon.
InitQueueLate(n, h) ==
    <<Event(0, URGENT, "init", ShiftProc, "")>>
    \o [i \in 1..n |-> Event(0, URGENT, "init", i, "")]
    \o <<Event(h + 1, URGENT, "until", ShiftProc, "")>>

InitQueue(n, h) ==
    <<Event(0, URGENT, "init", ShiftProc, "")>>
    \o [i \in 1..n |-> Event(0, URGENT, "init", i, "")]
    \o <<Event(h, URGENT, "until", ShiftProc, "")>>

InitScenario(sc) ==
    /\ machine_count = sc.machine_count
    /\ shift_start = sc.shift_start
    /\ shift_end = sc.shift_end
    /\ product_types = sc.product_types
    /\ horizon = sc.horizon
    /\ now = 0
    /\ queue = InitQueue(Len(sc.product_types), sc.horizon)
    /\ stopped = FALSE
    /\ is_active = FALSE
    /\ shift_pc = "start"
    /\ shift_now = 0
    /\ pc = [l \in 1..Len(sc.product_types) |-> "start"]
    /\ stage = [l \in 1..Len(sc.product_types) |-> ""]
    /\ users = [s \in StageSet |-> <<>>]
    /\ put_queue = [s \in StageSet |-> <<>>]
    /\ machine_id = [l \in 1..Len(sc.product_types) |-> 0]
    /\ setup_sample = [l \in 1..Len(sc.product_types) |-> 0]
    /\ start_time = [l \in 1..Len(sc.product_types) |-> 0]
    /\ machine_setup = [i \in 0..(sc.machine_count - 1) |-> None]
    /\ setup_time = [i \in 0..(sc.machine_count - 1) |-> 0]
    /\ raw_materials = <<>>
    /\ total_products_produced = 0
    /\ total_waiting_times = [s \in StageSet |-> 0]
    /\ processed_parts = [s \in StageSet |-> 0]
    /\ req_seq = 0
    /\ ticket = [l \in 1..Len(sc.product_types) |-> 0]
    /\ req_time = [l \in 1..Len(sc.product_types) |-> 0]
    /\ grant_time = [l \in 1..Len(sc.product_types) |-> 0]
    /\ last_added = [l \in 1..Len(sc.product_types) |-> -1]
    /\ last_blocked = [l \in 1..Len(sc.product_types) |-> -1]
    /\ act_at = [l \in 1..Len(sc.product_types) |-> -1]
    /\ latency = [l \in 1..Len(sc.product_types) |-> -1]

Init == \E sc \in Scenarios : InitScenario(sc)

\* ------------------------------------------------------------- actions

\* The event the environment pops next.
Next_ev == Head(queue)
Rest == Tail(queue)

Pops(kinds, who) ==
    /\ ~stopped
    /\ queue # <<>>
    /\ Next_ev.kind \in kinds
    /\ Next_ev.who = who

\* Lines that are polling the shift flag (run_production's else branch) or
\* have not run yet.
Idle(l) == pc[l] \in {"idle", "start"}

\* Shift.run, one pass of the loop from its top to its first yield.
ShiftRun ==
    /\ Pops({"init", "timeout"}, ShiftProc)
    /\ shift_pc # "on"
    /\ now' = Next_ev.time
    /\ LET n == now' % Day
       IN  /\ shift_now' = n
           /\ IF n < shift_start
              THEN /\ queue' = Timeout(Rest, now', shift_start - n, ShiftProc)
                   /\ shift_pc' = "pre"
                   /\ UNCHANGED <<is_active, act_at>>
              ELSE IF n >= shift_start /\ n < shift_end
              THEN /\ is_active' = TRUE
                   /\ queue' = Timeout(Rest, now', shift_end - n, ShiftProc)
                   /\ shift_pc' = "on"
                   /\ act_at' = [l \in Lines |->
                                   IF ~is_active /\ Idle(l) /\ act_at[l] < 0
                                   THEN now' ELSE act_at[l]]
              ELSE /\ is_active' = FALSE
                   /\ queue' = Timeout(Rest, now', Day - n + shift_start, ShiftProc)
                   /\ shift_pc' = "else"
                   /\ UNCHANGED act_at
    /\ UNCHANGED <<config, stopped, linev, poolv, setupv, raw_materials, metricv,
                   req_seq, ticket, req_time, grant_time, last_added, last_blocked,
                   latency>>

\* Variant: the flag is not lowered at the end of the window.
ShiftEndKeepsFlag ==
    /\ Pops({"timeout"}, ShiftProc)
    /\ shift_pc = "on"
    /\ now' = Next_ev.time
    /\ is_active' = is_active
    /\ queue' = Timeout(Rest, now', Day - (shift_end - shift_now), ShiftProc)
    /\ shift_pc' = "off"
    /\ UNCHANGED <<config, stopped, shift_now, linev, poolv, setupv, raw_materials,
                   metricv, obsv>>

\* Variant: after the window the process sleeps until midnight.
ShiftEndToMidnight ==
    /\ Pops({"timeout"}, ShiftProc)
    /\ shift_pc = "on"
    /\ now' = Next_ev.time
    /\ is_active' = FALSE
    /\ queue' = Timeout(Rest, now', Day - shift_end, ShiftProc)
    /\ shift_pc' = "off"
    /\ UNCHANGED <<config, stopped, shift_now, linev, poolv, setupv, raw_materials,
                   metricv, obsv>>

\* Shift.run resumed at the end of the window: the flag goes down and the
\* process sleeps for the rest of the day, computed from the saved now.
ShiftEnd ==
    /\ Pops({"timeout"}, ShiftProc)
    /\ shift_pc = "on"
    /\ now' = Next_ev.time
    /\ is_active' = FALSE
    /\ queue' = Timeout(Rest, now', Day - (shift_end - shift_now), ShiftProc)
    /\ shift_pc' = "off"
    /\ UNCHANGED <<config, stopped, shift_now, linev, poolv, setupv, raw_materials,
                   metricv, obsv>>

\* run_production at the top of its loop: it reads the shift flag, and either
\* starts load_raw_material or sleeps for an hour.
LineCheck(l) ==
    /\ Pops({"init", "timeout"}, l)
    /\ pc[l] \in {"start", "gap", "idle"}
    /\ now' = Next_ev.time
    /\ IF is_active
       THEN /\ queue' = Initialize(Rest, now', l)
            /\ pc' = [pc EXCEPT ![l] = "load"]
            /\ act_at' = [act_at EXCEPT ![l] = -1]
            /\ latency' = [latency EXCEPT ![l] =
                               IF act_at[l] >= 0 THEN now' - act_at[l] ELSE @]
       ELSE /\ queue' = Timeout(Rest, now', IdleDelay, l)
            /\ pc' = [pc EXCEPT ![l] = "idle"]
            /\ UNCHANGED <<act_at, latency>>
    /\ UNCHANGED <<config, stopped, shiftv, stage, machine_id, setup_sample,
                   start_time, poolv, setupv, raw_materials, metricv,
                   req_seq, ticket, req_time, grant_time, last_added, last_blocked>>

\* load_raw_material up to its yield: the store takes the item at once and
\* the put event is scheduled.
LoadInit(l) ==
    /\ Pops({"init"}, l)
    /\ pc[l] = "load"
    /\ now' = Next_ev.time
    /\ raw_materials' = Append(raw_materials, product_types[l])
    /\ queue' = Schedule(Rest, Event(now', NORMAL, "put", l, ""))
    /\ pc' = [pc EXCEPT ![l] = "put"]
    /\ UNCHANGED <<config, stopped, shiftv, stage, machine_id, setup_sample,
                   start_time, poolv, setupv, metricv, obsv>>

\* load_raw_material after its yield: it prints and ends.
LoadPut(l) ==
    /\ Pops({"put"}, l)
    /\ now' = Next_ev.time
    /\ queue' = ProcessEnd(Rest, now', l)
    /\ pc' = [pc EXCEPT ![l] = "loaded"]
    /\ UNCHANGED <<config, stopped, shiftv, stage, machine_id, setup_sample,
                   start_time, poolv, setupv, raw_materials, metricv, obsv>>

\* Variant: run_production reads the shift flag between the stages, and
\* polls when the shift is not active.
ProcessDoneChecksShift(l) ==
    /\ Pops({"process"}, l)
    /\ now' = Next_ev.time
    /\ IF pc[l] = "loaded"
       THEN /\ queue' = Initialize(Rest, now', l)
            /\ pc' = [pc EXCEPT ![l] = "req"]
            /\ stage' = [stage EXCEPT ![l] = Stages[1]]
       ELSE IF StageIndex(stage[l]) < Len(Stages) /\ ~is_active
       THEN /\ queue' = Timeout(Rest, now', IdleDelay, l)
            /\ pc' = [pc EXCEPT ![l] = "idle"]
            /\ stage' = [stage EXCEPT ![l] = ""]
       ELSE IF StageIndex(stage[l]) < Len(Stages)
       THEN /\ queue' = Initialize(Rest, now', l)
            /\ pc' = [pc EXCEPT ![l] = "req"]
            /\ stage' = [stage EXCEPT ![l] = Stages[StageIndex(stage[l]) + 1]]
       ELSE /\ queue' = Timeout(Rest, now', GapDelay, l)
            /\ pc' = [pc EXCEPT ![l] = "gap"]
            /\ stage' = [stage EXCEPT ![l] = ""]
    /\ UNCHANGED <<config, stopped, shiftv, machine_id, setup_sample, start_time,
                   poolv, setupv, raw_materials, metricv, obsv>>

\* run_production resumed by the end of a sub-process: it starts the next
\* stage's process, or sleeps an hour after Packaging.
ProcessDone(l) ==
    /\ Pops({"process"}, l)
    /\ now' = Next_ev.time
    /\ IF pc[l] = "loaded"
       THEN /\ queue' = Initialize(Rest, now', l)
            /\ pc' = [pc EXCEPT ![l] = "req"]
            /\ stage' = [stage EXCEPT ![l] = Stages[1]]
       ELSE IF StageIndex(stage[l]) < Len(Stages)
       THEN /\ queue' = Initialize(Rest, now', l)
            /\ pc' = [pc EXCEPT ![l] = "req"]
            /\ stage' = [stage EXCEPT ![l] = Stages[StageIndex(stage[l]) + 1]]
       ELSE /\ queue' = Timeout(Rest, now', GapDelay, l)
            /\ pc' = [pc EXCEPT ![l] = "gap"]
            /\ stage' = [stage EXCEPT ![l] = ""]
    /\ UNCHANGED <<config, stopped, shiftv, machine_id, setup_sample, start_time,
                   poolv, setupv, raw_materials, metricv, obsv>>

\* A stage process up to its yield of the request: the request joins the put
\* queue and the queue is triggered once.
StageInit(l) ==
    /\ Pops({"init"}, l)
    /\ pc[l] = "req"
    /\ now' = Next_ev.time
    /\ LET s == stage[l]
           r == TriggerPut(users[s], Append(put_queue[s], l), Rest, now', s)
       IN  /\ users' = [users EXCEPT ![s] = r.users]
           /\ put_queue' = [put_queue EXCEPT ![s] = r.put_queue]
           /\ queue' = r.queue
           /\ grant_time' = [k \in Lines |->
                               IF k = r.granted THEN now' ELSE grant_time[k]]
    /\ pc' = [pc EXCEPT ![l] = "wait"]
    /\ req_seq' = req_seq + 1
    /\ ticket' = [ticket EXCEPT ![l] = req_seq + 1]
    /\ req_time' = [req_time EXCEPT ![l] = now']
    /\ UNCHANGED <<config, stopped, shiftv, stage, machine_id, setup_sample,
                   start_time, setupv, raw_materials, metricv,
                   last_added, last_blocked, act_at, latency>>

\* A stage process resumed with its request granted.  Machining picks a
\* machine and, when that machine was set up for another product, samples and
\* waits a setup time; otherwise the processing time is sampled and waited.
StageGranted(l) ==
    /\ Pops({"request"}, l)
    /\ pc[l] = "wait"
    /\ now' = Next_ev.time
    /\ LET s == stage[l]
           m == GetAvailableMachine(Len(users["machining"]))
       IN  IF s = "machining" /\ machine_setup[m] # product_types[l]
           THEN /\ machine_id' = [machine_id EXCEPT ![l] = m]
                /\ \E d \in SetupDraws :
                      /\ setup_sample' = [setup_sample EXCEPT ![l] = d]
                      /\ queue' = Timeout(Rest, now', d, l)
                /\ pc' = [pc EXCEPT ![l] = "setup"]
                /\ UNCHANGED start_time
           ELSE /\ machine_id' = IF s = "machining"
                                 THEN [machine_id EXCEPT ![l] = m]
                                 ELSE machine_id
                /\ start_time' = [start_time EXCEPT ![l] = now']
                /\ \E d \in ProcessingDraws(s) : queue' = Timeout(Rest, now', d, l)
                /\ pc' = [pc EXCEPT ![l] = "proc"]
                /\ UNCHANGED setup_sample
    /\ UNCHANGED <<config, stopped, shiftv, stage, poolv, setupv, raw_materials,
                   metricv, obsv>>

\* machining_process after its setup timeout.
SetupDone(l) ==
    /\ Pops({"timeout"}, l)
    /\ pc[l] = "setup"
    /\ now' = Next_ev.time
    /\ machine_setup' = [machine_setup EXCEPT ![machine_id[l]] = product_types[l]]
    /\ setup_time' = [setup_time EXCEPT ![machine_id[l]] = @ + setup_sample[l]]
    /\ start_time' = [start_time EXCEPT ![l] = now']
    /\ \E d \in MachiningDraws : queue' = Timeout(Rest, now', d, l)
    /\ pc' = [pc EXCEPT ![l] = "proc"]
    /\ UNCHANGED <<config, stopped, shiftv, stage, machine_id, setup_sample,
                   poolv, raw_materials, metricv, obsv>>

\* total_products_produced after a stage has handled a unit: Packaging
\* counts the product.
\* Variant: every stage counts a product.
ProducedAfterEveryStage(s) == total_products_produced + 1
ProducedAfter(s) ==
    IF s = "packaging" THEN total_products_produced + 1 ELSE total_products_produced

\* processed_parts after a stage's processing timeout: the stage counts the
\* unit, in Machining before the failure draw.
\* Variant: Machining does not count the unit at the end of its machining time.
ProcessedAfterNotMachining(s) ==
    IF s = "machining" THEN processed_parts
                       ELSE [processed_parts EXCEPT ![s] = @ + 1]
\* Variant: Packaging counts the unit twice.
ProcessedAfterTwice(s) ==
    [processed_parts EXCEPT ![s] = @ + (IF s = "packaging" THEN 2 ELSE 1)]
ProcessedAfter(s) == [processed_parts EXCEPT ![s] = @ + 1]

\* The amount a stage adds to total_waiting_times: now - start_time.
WaitTime(t, l) == t - start_time[l]

\* Variant: the with block ends without the request leaving the users.
ReleaseAndEndKeepsToken(l, s, t) ==
    /\ users' = users
    /\ queue' = ProcessEnd(Schedule(Rest, Event(t, NORMAL, "release", l, s)), t, l)
    /\ pc' = [pc EXCEPT ![l] = "done"]
    /\ UNCHANGED put_queue

\* The end of a stage's with block: the request leaves the users, the release
\* event is scheduled, and the ended process's event after it.
ReleaseAndEnd(l, s, t) ==
    /\ users' = [users EXCEPT ![s] = Remove(users[s], l)]
    /\ queue' = ProcessEnd(Schedule(Rest, Event(t, NORMAL, "release", l, s)), t, l)
    /\ pc' = [pc EXCEPT ![l] = "done"]
    /\ UNCHANGED put_queue

\* A stage process after its processing timeout: the metrics are updated;
\* Machining may fail and wait a repair time; the others, and Machining
\* without a failure, leave the with block.
StageDone(l) ==
    /\ Pops({"timeout"}, l)
    /\ pc[l] = "proc"
    /\ now' = Next_ev.time
    /\ LET s == stage[l]
       IN  /\ total_waiting_times' =
                 [total_waiting_times EXCEPT ![s] = @ + WaitTime(now', l)]
           /\ processed_parts' = ProcessedAfter(s)
           /\ total_products_produced' = ProducedAfter(s)
           /\ last_added' = [last_added EXCEPT ![l] = WaitTime(now', l)]
           /\ last_blocked' = [last_blocked EXCEPT ![l] = grant_time[l] - req_time[l]]
           /\ \E failure \in FailureDraws :
                 IF s = "machining" /\ failure
                 THEN /\ \E d \in RepairDraws : queue' = Timeout(Rest, now', d, l)
                      /\ pc' = [pc EXCEPT ![l] = "repair"]
                      /\ UNCHANGED poolv
                 ELSE ReleaseAndEnd(l, s, now')
    /\ UNCHANGED <<config, stopped, shiftv, stage, machine_id, setup_sample,
                   start_time, setupv, raw_materials,
                   req_seq, ticket, req_time, grant_time, act_at, latency>>

\* machining_process after its repair timeout.
RepairDone(l) ==
    /\ Pops({"timeout"}, l)
    /\ pc[l] = "repair"
    /\ now' = Next_ev.time
    /\ ReleaseAndEnd(l, stage[l], now')
    /\ UNCHANGED <<config, stopped, shiftv, stage, machine_id, setup_sample,
                   start_time, setupv, raw_materials, metricv, obsv>>

\* Variant: the release event triggers nothing.
ReleaseEventNoTrigger(l) ==
    /\ Pops({"release"}, l)
    /\ now' = Next_ev.time
    /\ queue' = Rest
    /\ UNCHANGED <<config, stopped, shiftv, linev, poolv, setupv, raw_materials,
                   metricv, obsv>>

\* The release event's callback: the put queue of its resource is triggered.
ReleaseEvent(l) ==
    /\ Pops({"release"}, l)
    /\ now' = Next_ev.time
    /\ LET s == Next_ev.res
           r == TriggerPut(users[s], put_queue[s], Rest, now', s)
       IN  /\ users' = [users EXCEPT ![s] = r.users]
           /\ put_queue' = [put_queue EXCEPT ![s] = r.put_queue]
           /\ queue' = r.queue
           /\ grant_time' = [k \in Lines |->
                               IF k = r.granted THEN now' ELSE grant_time[k]]
    /\ UNCHANGED <<config, stopped, shiftv, linev, setupv, raw_materials, metricv,
                   req_seq, ticket, req_time, last_added, last_blocked, act_at,
                   latency>>

\* env.run(until): the event that ends the run.  It is urgent, so it is
\* popped before the timeouts that fall on the horizon.
Until ==
    /\ Pops({"until"}, ShiftProc)
    /\ now' = Next_ev.time
    /\ queue' = Rest
    /\ stopped' = TRUE
    /\ UNCHANGED <<config, shiftv, linev, poolv, setupv, raw_materials, metricv, obsv>>

Next ==
    \/ ShiftRun
    \/ ShiftEnd
    \/ \E l \in Lines : LineCheck(l)
    \/ \E l \in Lines : LoadInit(l)
    \/ \E l \in Lines : LoadPut(l)
    \/ \E l \in Lines : ProcessDone(l)
    \/ \E l \in Lines : StageInit(l)
    \/ \E l \in Lines : StageGranted(l)
    \/ \E l \in Lines : SetupDone(l)
    \/ \E l \in Lines : StageDone(l)
    \/ \E l \in Lines : RepairDone(l)
    \/ \E l \in Lines : ReleaseEvent(l)
    \/ Until

Spec == Init /\ [][Next]_vars

\* -------------------------------------------------------------- claims

Elements(seq) == {seq[i] : i \in 1..Len(seq)}

ValidWindow == 0 <= shift_start /\ shift_start < shift_end /\ shift_end <= Day

\* The window as a function of the time of day.
InWindow(t) == shift_start <= (t % Day) /\ (t % Day) < shift_end

\* C1: in every reachable state, each stage pool has at least 0 and at most
\* its capacity of tokens in use.
C1_InUseWithinCapacity ==
    \A s \in StageSet : Len(users[s]) >= 0 /\ Len(users[s]) <= Capacity(s)

\* A pool is full while a line waits on it.
C1_Witness ==
    \E s \in StageSet : Len(users[s]) = Capacity(s) /\ put_queue[s] # <<>>

\* C2: of two lines blocked on the same pool, the one that requested later is
\* never granted while the one that requested earlier still waits.
C2_FifoGrant ==
    [][\A s \in StageSet : \A x, y \in Elements(put_queue[s]) :
          ticket[x] < ticket[y] => ~(y \in Elements(users'[s]))]_vars

\* Line x holds a pool it was blocked on, and y, which requested the same
\* pool later and while x was still blocked, waits behind it.
C2_Witness ==
    \E s \in StageSet : \E x \in Elements(users[s]) : \E y \in Elements(put_queue[s]) :
        /\ req_time[x] < grant_time[x]
        /\ ticket[x] < ticket[y]
        /\ req_time[y] < grant_time[x]

\* Line l is about to read the shift flag: its check is the next event.
ReadsFlag(l) == Pops({"init", "timeout"}, l) /\ pc[l] \in {"start", "gap", "idle"}

\* C3: under every valid window, at every instant t at which a line reads
\* the shift flag, the flag equals start_hour <= (t mod 24) < end_hour.
C3_FlagIsWindow ==
    \A l \in Lines :
        (ValidWindow /\ ReadsFlag(l)) => (is_active <=> InWindow(Next_ev.time))

\* C4: with a window that is not start_hour < end_hour, construction fails
\* and no simulated time elapses.
C4_InvalidWindowNeverRuns == ~ValidWindow => now = 0

\* C5: the amount a stage adds to its total wait time for a unit is the time
\* between the line's request and the grant.
C5_WaitIsBlockedTime ==
    \A l \in Lines : last_added[l] >= 0 => last_added[l] = last_blocked[l]

\* C6: each stage's processed count never decreases from one state to the
\* next, and the Packaging processed count equals total_products_produced
\* in every state.
C6_CountsMonotoneAndPackaged ==
    /\ processed_parts["packaging"] = total_products_produced
    /\ [][/\ \A s \in StageSet : processed_parts'[s] >= processed_parts[s]
          /\ processed_parts'["packaging"] = total_products_produced']_vars

\* The run has reached its horizon with products packaged.
C6_Witness == stopped /\ total_products_produced >= 2

\* C8 as claimed: when run(until = H) returns, no continuation with a
\* deadline <= H is left pending.
C8_ResumesThroughHorizon ==
    stopped => \A i \in 1..Len(queue) : queue[i].time > horizon

\* C8 as the code has it: the run resumes every continuation whose deadline
\* is < H and none whose deadline is >= H, and the clock never decreases.
C8_ResumesBeforeHorizon ==
    [][/\ now' >= now
       /\ ~stopped' => now' < horizon
       /\ stopped' => \A i \in 1..Len(queue') : queue'[i].time >= horizon]_vars

\* The run has returned and a continuation due exactly at the horizon is
\* still pending.
C8_Witness == stopped /\ \E i \in 1..Len(queue) : queue[i].time = horizon

\* Line l has begun a unit at the current instant: it is loading raw
\* material or about to issue its Machining request.
Begins(l) ==
    \/ pc[l] \in {"load", "put", "loaded"}
    \/ pc[l] = "req" /\ stage[l] = "machining"

OnMachine(l) == stage[l] = "machining" /\ pc[l] \in {"setup", "proc", "repair"}

\* C11: two lines that hold Machining tokens at the same time use different
\* machine slot ids.
C11_DistinctSlots ==
    \A x, y \in Lines :
        (x # y /\ OnMachine(x) /\ OnMachine(y)) => machine_id[x] # machine_id[y]

\* C12: from the end (or skip) of a line's setup until it releases its
\* Machining token, the machine it was assigned is recorded as set up for the
\* line's product type.
C12_SetupOwnedByHolder ==
    \A l \in Lines :
        (stage[l] = "machining" /\ pc[l] \in {"proc", "repair"})
            => machine_setup[machine_id[l]] = product_types[l]

\* The lines whose unit waits out a repair, still holding Machining.
InRepair == {l \in Lines : pc[l] = "repair"}

\* The units that have left Machining: those Assembly has counted, and those
\* of the lines between their Machining release and Assembly's count.
MachiningLeft ==
    processed_parts["assembly"]
    + Cardinality({l \in Lines :
                     \/ stage[l] = "machining" /\ pc[l] = "done"
                     \/ stage[l] = "assembly" /\ pc[l] \in {"req", "wait", "proc"}})

\* C13 as claimed: the Machining processed count never includes a unit whose
\* repair delay is still pending; it counts only units that have left.
C13_CountExcludesPendingRepair == processed_parts["machining"] <= MachiningLeft

\* C13 as the code has it: the count is incremented at the end of the
\* machining time, before the failure draw, so it includes exactly the units
\* that have left Machining and the units whose repair is pending.
C13_CountIncludesPendingRepair ==
    processed_parts["machining"] = MachiningLeft + Cardinality(InRepair)

\* A unit waits out its repair.
C13_Witness == \E l \in Lines : pc[l] = "repair" /\ l \in Elements(users["machining"])

\* The pools line l holds a token of or waits on.
PoolsOf(l) ==
    {s \in StageSet : l \in Elements(users[s]) \/ l \in Elements(put_queue[s])}

\* The stage that follows s in a unit's pipeline ("" before Machining and
\* after Packaging).
FollowingStage(s) ==
    IF s = "" THEN Stages[1]
    ELSE IF StageIndex(s) < Len(Stages) THEN Stages[StageIndex(s) + 1] ELSE ""

\* C14: a line holds or awaits at most one stage token, and only that of the
\* stage its unit is in; it moves to another stage only with the stage it
\* leaves counted and released, and only to the next of the four in order.
C14_LinearPipeline ==
    /\ \A l \in Lines : PoolsOf(l) \subseteq {stage[l]}
    /\ [][\A l \in Lines :
            /\ PoolsOf(l)' \subseteq {stage'[l]}
            /\ stage'[l] # stage[l] =>
                  /\ stage'[l] = FollowingStage(stage[l])
                  /\ PoolsOf(l) = {}
                  /\ stage[l] # "" => pc[l] = "done"
            /\ (pc'[l] = "done" /\ pc[l] # "done") =>
                  processed_parts'[stage[l]] = processed_parts[stage[l]] + 1
                  \/ pc[l] = "repair"]_vars

\* A line's second unit is in Packaging, its first having left it.
C14_Witness ==
    \E l \in Lines : l \in Elements(users["packaging"]) /\ total_products_produced >= 1
                     /\ Len(product_types) = 1

\* A slot of pool s is free while a requester waits on it.
FreeWhileWaiting(s) == put_queue[s] # <<>> /\ Len(users[s]) < Capacity(s)

\* C15: the clock never advances while a pool has a waiting requester and a
\* free slot (a released token goes to the longest-waiting requester at the
\* instant of the release), and no requester, waiting or newly arrived, is
\* granted a pool while one that requested earlier waits on it.
C15_HandOffOnRelease ==
    [][/\ now' > now => \A s \in StageSet : ~FreeWhileWaiting(s)
       /\ \A s \in StageSet : \A y \in Lines :
             (y \in Elements(users'[s]) /\ ~(y \in Elements(users[s])))
                => \A x \in Elements(put_queue[s]) : ~(ticket[x] < ticket'[y])]_vars

\* A token has been released with a line waiting, whose grant follows at
\* this instant.
C15_Witness == \E s \in StageSet : FreeWhileWaiting(s) /\ now > 0

\* The lines that have a unit in flight: begun and not yet out of Packaging.
InFlight == {l \in Lines : pc[l] \notin {"start", "gap", "idle"}}

\* C16: the system keeps no record of completed units: the raw-material
\* store holds only units still in flight, at most one per line.
C16_NoCompletedUnitRetained == Len(raw_materials) <= Cardinality(InFlight)

\* ------------------------------------------------------------- liveness

\* The scenarios with competing lines over the horizon LiveHorizon, with the
\* environment's loop always taking its next step while an event is pending.
LiveRuns == { Scenario(m, w, p, LiveHorizon) :
              m \in 1..MaxMachines, w \in ShortWindows, p \in ProductLists }

LiveInit == \E sc \in LiveRuns : InitScenario(sc)

LiveSpec == LiveInit /\ [][Next]_vars /\ WF_vars(Next)

\* Line l waits in the put queue of the pool of its stage.
Blocked(l) ==
    l \in DOMAIN pc /\ stage[l] \in StageSet
        /\ l \in Elements(put_queue[stage[l]])

\* Line l holds a token of the pool of its stage.
Granted(l) ==
    l \in DOMAIN pc /\ stage[l] \in StageSet
        /\ l \in Elements(users[stage[l]])

\* The run has ended with line l still waiting on a pool whose every slot
\* is held.
CutOff(l) ==
    stopped /\ Blocked(l) /\ Len(users[stage[l]]) = Capacity(stage[l])

ShiftPending ==
    {i \in 1..Len(queue) :
        queue[i].who = ShiftProc /\ queue[i].kind \in {"init", "timeout"}}

\* C18: the Shift process always has exactly one pending suspension; under a
\* valid window none of its timeouts is due before the clock, and each is due
\* on a window boundary (time mod 24 is shift_start or shift_end mod 24).
C18_OnePendingOnBoundary ==
    /\ Cardinality(ShiftPending) = 1
    /\ ValidWindow =>
          \A i \in ShiftPending :
              /\ queue[i].time >= now
              /\ queue[i].kind = "timeout" =>
                    queue[i].time % Day \in {shift_start, shift_end % Day}

\* The window has closed and the process sleeps until the next opening, on
\* a day where the window opens after midnight.
C18_Witness ==
    /\ ValidWindow /\ shift_start > 0 /\ shift_pc = "off"
    /\ \E i \in ShiftPending : queue[i].time % Day = shift_start

\* ----------------------------------------------------- pipeline counts

\* C19: the processed counts never increase along the pipeline, and the
\* units counted by Machining and not yet by Packaging are at most one per
\* production line.
C19_CountsOrderedAlongPipeline ==
    /\ \A i \in 1..(Len(Stages) - 1) :
          processed_parts[Stages[i]] >= processed_parts[Stages[i + 1]]
    /\ processed_parts["machining"] - processed_parts["packaging"]
          <= Len(product_types)

\* Every line has a unit past Machining and short of Packaging, after a unit
\* has been packaged.
C19_Witness ==
    /\ processed_parts["packaging"] >= 1
    /\ processed_parts["machining"] - processed_parts["packaging"]
          = Len(product_types)

\* -------------------------------------------------- the shift as a gate

\* C20: the shift gates only the start of a cycle: a line that has begun a
\* unit never goes back to polling the shift, and leaves the cycle only by
\* the end of Packaging; so a product can be completed while the shift is
\* not active.
C20_ShiftGatesOnlyTheStart ==
    [][\A l \in InFlight :
          /\ pc'[l] # "idle"
          /\ pc'[l] \in {"start", "gap"} =>
                pc'[l] = "gap" /\ stage[l] = "packaging" /\ pc[l] = "done"]_vars

\* A product has been completed, its Packaging count added and its token
\* released at an hour after the window has closed.
C20_Witness ==
    /\ ValidWindow /\ ~is_active /\ now % Day > shift_end
    /\ \E l \in Lines :
          /\ stage[l] = "packaging" /\ pc[l] = "done"
          /\ total_products_produced >= 1

====
